---- MODULE Spec2Model ----
(***************************************************************************)
(* A model of the drops farmer's core (src/core.py): the resilient request *)
(* engine, the campaign/drop tracker and the watch engine of one           *)
(* AccountWorker.  Every coroutine is modelled from one suspension point   *)
(* (await) to the next: the event loop is single threaded, so the code     *)
(* between two awaits is one atomic step.                                  *)
(***************************************************************************)
EXTENDS Integers, Sequences, FiniteSets, TLC

VARIABLES
    is_running,        \* AccountWorker._is_running
    watching_channel,  \* AccountWorker.watching_channel ("none" or a Channel object)
    watching_task,     \* AccountWorker._watching_task (0 = None, else a task number)
    tasks,             \* every task made by asyncio.create_task(_watch_loop(c))
    nTasks,            \* how many tasks were created so far
    stream,            \* Channel._stream is set, per Channel object
    spade,             \* Channel._spade_url, per Channel object ("none" or the cached URL)
    leaked,            \* a request() call that has exited still holds its connection
    inventory,         \* AccountWorker.inventory: the tracked campaigns
    fi,                \* the main control flow inside fetch_inventory(), and what its last call did
    channels,          \* AccountWorker.channels: per platform id, the Channel object held
    fc,                \* the main control flow inside fetch_channels(), and what its last call did
    asked,             \* the last evaluation of a campaign's active, finished and can_earn()
    registry,          \* GQL_OPERATIONS: the operation registered under each key
    made,              \* the last call of with_variables(): its operands and what it left
    session,           \* the account's credential, and how far main() has come with it
    watch_noop         \* the last call of watch() returned at line 633, having done nothing

vars == <<is_running, watching_channel, watching_task, tasks, nTasks,
          stream, spade, leaked, inventory, fi, channels, fc, asked, registry, made,
          session, watch_noop>>

watchVars == <<is_running, watching_channel, watching_task, tasks, nTasks,
               stream, spade, leaked, watch_noop>>

trackerVars == <<inventory, fi, channels, fc, asked, registry, made, session>>

(***************************************************************************)
(* Bounds of the model.                                                    *)
(***************************************************************************)
MaxTasks == 2      \* watch() creates at most this many tasks in one run
MaxExp == 6        \* attempts of one request() call the server lets fail in a row
MaxHB == 2         \* heartbeat POSTs of one loop are counted up to here
MaxMinutes == 2    \* minutes the server reports for a drop
MaxTime == 2       \* instants of the clock and of the campaigns' dates: 0..MaxTime
MaxFetch == 2      \* calls of fetch_channels() in one run

(***************************************************************************)
(* Program constants.                                                      *)
(***************************************************************************)
WATCH_INTERVAL == 60
BackoffBase == 1
BackoffMax == 60
FloatMaxExp == 1024   \* 2 ** 1024 is the first power of two that is no float

Min(a, b) == IF a < b THEN a ELSE b

RECURSIVE Pow2(_)
Pow2(n) == IF n = 0 THEN 1 ELSE 2 * Pow2(n - 1)

(***************************************************************************)
(* Channel objects.  Channel defines no __eq__, so `==` on channels is     *)
(* object identity; watch() compares the platform ids.  c1 and c1b are two *)
(* objects made for the same platform channel.                             *)
(***************************************************************************)
ChannelObjs == {"c1", "c1b", "c2"}

channel_id(c) == IF c \in {"c1", "c1b"} THEN 1 ELSE 2

None == "none"

(***************************************************************************)
(* ExponentialBackoff.__next__: _exp += 1; min(base * 2 ** _exp, max).     *)
(* base is the float 1.0 and 2 ** _exp an int: from _exp = FloatMaxExp on  *)
(* the product raises OverflowError.  The power is computed up to          *)
(* 2 ** PowCap, which is above BackoffMax already.                         *)
(***************************************************************************)
PowCap == 6

ExponentialBackoff_next(exp) ==
    LET e == exp + 1
    IN  IF e >= FloatMaxExp
        THEN [exp |-> e, raised |-> TRUE, delay |-> 0]
        ELSE [exp |-> e, raised |-> FALSE,
              delay |-> Min(BackoffBase * Pow2(Min(e, PowCap)), BackoffMax)]

(***************************************************************************)
(* Tasks.  pc is the await the coroutine is suspended at:                  *)
(*   created       made by create_task, first step not yet run             *)
(*   send          request(): awaiting session.request(...)                *)
(*   backoff       request(): asyncio.sleep(delay) in the except clause    *)
(*   backoff_held  request(): asyncio.sleep(delay) inside the async with   *)
(*                 of a response with status >= 500                        *)
(*   yielded       request() has yielded; the caller awaits the body       *)
(*   sleep         _watch_loop: asyncio.sleep(WATCH_INTERVAL)              *)
(*   cancelling    the awaited future was cancelled; CancelledError is     *)
(*                 delivered at the task's next step                       *)
(*   done          the coroutine has returned                              *)
(* site is the request() call the task is inside.                          *)
(***************************************************************************)
Sites == {"stream", "page", "token", "playlist", "post"}

StatusCodes == {200, 204, 404, 500, 503}

\* what the caller's block finds when it awaits the body of a yielded response;
\* a playlist text can have a spade_url match ("match"), a stream-chunk URL as
\* its last line ("chunk"), both ("match_chunk") or neither ("nomatch")
BodyOutcomes(site) ==
    CASE site = "stream"   -> {"live", "offline", "api_error", "client_error", "other_error"}
      [] site = "page"     -> {"match", "nomatch", "client_error", "other_error"}
      [] site = "token"    -> {"token", "notoken", "api_error", "client_error", "other_error"}
      [] site = "playlist" -> {"match", "match_chunk", "chunk", "nomatch", "client_error",
                               "other_error"}
      [] OTHER             -> {}

\* Other fields: exp, delay are the backoff's _exp and request()'s loop variable delay;
\* timer is the length of the asyncio.sleep the task is suspended in; thrown says an
\* exception of the caller's block was thrown into request() and caught there; conn
\* says the task's request() call holds a connection; cancel says Task.cancel() was
\* called; live, hb, lastSend and err record what the loop has done (the result of
\* update_stream(), the heartbeat POSTs issued, the result of the last send_watch()
\* and the exception get_spade_url() raised in it: "none", "MinerException" or
\* "other"); they are forgotten when the loop is cancelled, lastSend and err also
\* when it is over; resp is the status of the response the last attempt of the
\* loop received (0: none yet, or a network error); exit records how the loop ended;
\* body is what get_spade_url() has read last in the send_watch() under way.
NoTask == [chan |-> None, pc |-> "done", site |-> None, exp |-> 0, delay |-> 0,
           timer |-> 0, thrown |-> FALSE, conn |-> FALSE, cancel |-> FALSE,
           live |-> "unknown", hb |-> 0, lastSend |-> "none", err |-> "none",
           resp |-> 0, exit |-> "none", body |-> "none"]

NewTask(c) == [NoTask EXCEPT !.chan = c, !.pc = "created"]

TaskIds == 1..nTasks

W == [tasks |-> tasks, watching_channel |-> watching_channel,
      stream |-> stream, spade |-> spade, leaked |-> leaked]

Commit(w) ==
    /\ tasks' = w.tasks
    /\ watching_channel' = w.watching_channel
    /\ stream' = w.stream
    /\ spade' = w.spade
    /\ leaked' = w.leaked


(***************************************************************************)
(* The request engine, AccountWorker.request (lines 465-499), as the steps *)
(* of the task that is inside it.                                          *)
(***************************************************************************)
\* the async with of session.request(...) is left: the connection is released
release(w, t) == [w EXCEPT !.tasks[t].conn = FALSE]

\* lines 481-488: the for loop draws the next delay and issues the attempt
request_attempt(w, t) ==
    LET b == ExponentialBackoff_next(w.tasks[t].exp)
    IN  [w EXCEPT !.tasks[t].pc = "send",
                  !.tasks[t].exp = b.exp,
                  !.tasks[t].delay = b.delay,
                  !.tasks[t].timer = 0,
                  !.tasks[t].resp = 0,
                  !.tasks[t].hb = IF w.tasks[t].site = "post" THEN Min(@ + 1, MaxHB) ELSE @]

\* line 480: a call of request() starts with a fresh ExponentialBackoff
request(w, t, site) ==
    request_attempt([w EXCEPT !.tasks[t].site = site,
                              !.tasks[t].exp = 0,
                              !.tasks[t].thrown = FALSE], t)

\* lines 491-492 and 497-498: asyncio.sleep(delay), inside or outside the async with
backoff_sleep(w, t, held) ==
    [w EXCEPT !.tasks[t].pc = IF held THEN "backoff_held" ELSE "backoff",
              !.tasks[t].conn = held,
              !.tasks[t].timer = w.tasks[t].delay]

(***************************************************************************)
(* The watch loop, AccountWorker._watch_loop (lines 646-669), with         *)
(* Channel.update_stream, Channel.get_spade_url and Channel.send_watch.    *)
(***************************************************************************)
\* lines 667-669: the finally block; the coroutine is over
watch_loop_finally(w, t, why) ==
    [w EXCEPT !.tasks[t].pc = "done",
              !.tasks[t].site = None,
              !.tasks[t].exp = 0,
              !.tasks[t].delay = 0,
              !.tasks[t].timer = 0,
              !.tasks[t].thrown = FALSE,
              !.tasks[t].lastSend = "none",
              !.tasks[t].err = "none",
              !.tasks[t].resp = 0,
              !.tasks[t].body = "none",
              !.tasks[t].exit = why,
              !.watching_channel = IF @ = w.tasks[t].chan THEN None ELSE @]

\* a loop that gives up at the first failed heartbeat
send_watch_returns_give_up(w, t, ok) ==
    IF ok
    THEN [w EXCEPT !.tasks[t].pc = "sleep", !.tasks[t].site = None, !.tasks[t].exp = 0,
                   !.tasks[t].delay = 0, !.tasks[t].timer = WATCH_INTERVAL,
                   !.tasks[t].thrown = FALSE, !.tasks[t].lastSend = "ok",
                   !.tasks[t].err = "none"]
    ELSE watch_loop_finally(w, t, "cond")

\* lines 655-661: send_watch() has returned ok; the loop sleeps WATCH_INTERVAL
send_watch_returns(w, t, ok) ==
    [w EXCEPT !.tasks[t].pc = "sleep",
              !.tasks[t].site = None,
              !.tasks[t].exp = 0,
              !.tasks[t].delay = 0,
              !.tasks[t].timer = WATCH_INTERVAL,
              !.tasks[t].thrown = FALSE,
              !.tasks[t].lastSend = IF ok THEN "ok" ELSE "fail",
              !.tasks[t].err = "none",
              !.tasks[t].body = "none"]

\* a get_spade_url that caches a URL although every strategy has failed
get_spade_url_raises_cached(w, t, kind) ==
    [send_watch_returns([w EXCEPT !.spade[w.tasks[t].chan] = "url_page"], t, FALSE)
        EXCEPT !.tasks[t].err = kind]

\* get_spade_url() raises: MinerException when all three strategies have failed
\* (line 304; an exception of the token call or the playlist fetch is caught at
\* line 301 first), any other exception from the page fetch of lines 232-233.
\* Nothing is cached; send_watch() catches it (lines 329-331) and returns False.
get_spade_url_raises(w, t, kind) ==
    [send_watch_returns(w, t, FALSE) EXCEPT !.tasks[t].err = kind]

\* a send_watch that runs the discovery whether or not a URL is cached
send_watch_rediscovers(w, t) ==
    IF ~w.stream[w.tasks[t].chan] THEN send_watch_returns(w, t, FALSE)
    ELSE request(w, t, "page")

\* Channel.send_watch, lines 306-324, up to its first await
send_watch(w, t) ==
    LET c == w.tasks[t].chan
    IN  IF ~w.stream[c] THEN send_watch_returns(w, t, FALSE)
        ELSE IF w.spade[c] = None THEN request(w, t, "page")
        ELSE request(w, t, "post")

\* get_spade_url found a URL (lines 243-247, 280-284, 294-299): it is cached and
\* send_watch goes on to the POST (lines 314-324)
spade_found(w, t, url) ==
    request([w EXCEPT !.spade[w.tasks[t].chan] = url], t, "post")

\* a loop that goes on for as long as the worker runs, whatever the current
\* channel is
loop_head_any_channel(w, t) ==
    IF is_running THEN send_watch(w, t) ELSE watch_loop_finally(w, t, "cond")

\* a loop that goes on for as long as its channel is current, whether or not
\* the worker runs
loop_head_while_stopped(w, t) ==
    IF w.watching_channel = w.tasks[t].chan
    THEN send_watch(w, t)
    ELSE watch_loop_finally(w, t, "cond")

\* line 653: the while condition, then the loop body or the exit
loop_head(w, t) ==
    IF is_running /\ w.watching_channel = w.tasks[t].chan
    THEN send_watch(w, t)
    ELSE watch_loop_finally(w, t, "cond")

\* a loop that logs the offline channel and goes on into the while loop
update_stream_returns_no_exit(w, t, live) ==
    loop_head([w EXCEPT !.stream[w.tasks[t].chan] = TRUE,
                        !.tasks[t].live = IF live THEN "live" ELSE "offline"], t)

\* Channel.update_stream returns live (lines 215-223); _watch_loop lines 649-653
update_stream_returns(w, t, live) ==
    LET w1 == [w EXCEPT !.stream[w.tasks[t].chan] = live,
                        !.tasks[t].live = IF live THEN "live" ELSE "offline"]
    IN  IF ~live THEN watch_loop_finally(w1, t, "offline") ELSE loop_head(w1, t)

\* a playlist scan that derives the /ping URL before it looks for spade_url
playlist_scan_ping_first(r) ==
    IF r \in {"chunk", "match_chunk"} THEN "url_ping"
    ELSE IF r = "match" THEN "url_playlist"
    ELSE None

\* lines 277-299: the playlist text is searched for spade_url first; the /ping
\* URL is derived from its last line only after that search has found nothing
playlist_scan(r) ==
    IF r \in {"match", "match_chunk"} THEN "url_playlist"
    ELSE IF r = "chunk" THEN "url_ping"
    ELSE None

\* The request() call of the task's site is over and its caller goes on with r:
\* a body outcome, "ok"/"bad_status" of a POST, "other_error" for an exception
\* that is no GQLException, or "overflow_error" for the OverflowError of the
\* backoff.
request_result(w, t, r) ==
    LET site == w.tasks[t].site
    IN  CASE site = "stream" ->
               IF r = "live" THEN update_stream_returns(w, t, TRUE)
               ELSE IF r \in {"offline", "api_error"} THEN update_stream_returns(w, t, FALSE)
               ELSE IF r = "overflow_error" THEN watch_loop_finally(w, t, "OverflowError")
               ELSE watch_loop_finally(w, t, "error")
          [] site = "page" ->
               IF r = "match" THEN spade_found(w, t, "url_page")
               ELSE IF r = "nomatch" THEN request(w, t, "token")
               ELSE get_spade_url_raises(w, t, "other")
          [] site = "token" ->
               IF r = "token" THEN request(w, t, "playlist")
               ELSE get_spade_url_raises(w, t, "MinerException")
          [] site = "playlist" ->
               IF playlist_scan(r) # None THEN spade_found(w, t, playlist_scan(r))
               ELSE get_spade_url_raises(w, t, "MinerException")
          [] OTHER -> send_watch_returns(w, t, r = "ok")

\* session.request(...) has answered (lines 484-499).  neterr: it raised a client
\* error or timed out.  A response below 500 is yielded; when the generator was
\* resumed by an exception before (thrown), this second yield makes the context
\* manager raise RuntimeError, and the generator, suspended inside its async with,
\* keeps the connection unless the runtime closes it at once (aclose).
session_request_returns(w, t, neterr, status, aclose) ==
    LET w1 == [w EXCEPT !.tasks[t].resp = status]
    IN  IF neterr THEN backoff_sleep(w, t, FALSE)
        ELSE IF status >= 500 THEN backoff_sleep(w1, t, TRUE)
        ELSE IF w.tasks[t].thrown
             THEN request_result([w1 EXCEPT !.leaked = @ \/ ~aclose], t, "other_error")
        ELSE IF w.tasks[t].site = "post"
             THEN request_result(w1, t, IF status \in {200, 204} THEN "ok" ELSE "bad_status")
        ELSE [w1 EXCEPT !.tasks[t].pc = "yielded", !.tasks[t].conn = TRUE]

\* the sleep of lines 492 / 498 is over: continue / the next turn of the for loop,
\* whose call of __next__ (line 481) is outside the try block
backoff_done(w, t) ==
    IF ExponentialBackoff_next(w.tasks[t].exp).raised
    THEN request_result(release(w, t), t, "overflow_error")
    ELSE request_attempt(release(w, t), t)

\* The caller's block has awaited the body.  A client error or timeout raised
\* there is thrown into the generator at its yield, leaves the async with and is
\* caught by the except clause of line 496.
body_read(w, t, r) ==
    IF r = "client_error"
    THEN backoff_sleep([w EXCEPT !.tasks[t].thrown = TRUE], t, FALSE)
    ELSE request_result(release([w EXCEPT !.tasks[t].body =
                                     IF w.tasks[t].site \in {"page", "token", "playlist"}
                                     THEN r ELSE @], t), t, r)

\* line 646-649: the first step of the coroutine
watch_loop_start(w, t) == request(w, t, "stream")

\* line 661: the interval sleep is over
interval_done(w, t) == loop_head([w EXCEPT !.tasks[t].timer = 0], t)

\* Task.cancel(): a finished task is left alone; a task that has not run yet is
\* marked; a suspended task has its awaited future cancelled at once.
Task_cancel(tk) ==
    IF tk.pc = "done" THEN tk
    ELSE IF tk.pc = "created" THEN [tk EXCEPT !.cancel = TRUE]
    ELSE [tk EXCEPT !.cancel = TRUE, !.pc = "cancelling", !.site = None, !.exp = 0,
                    !.delay = 0, !.timer = 0, !.thrown = FALSE,
                    !.live = "unknown", !.hb = 0, !.lastSend = "none", !.err = "none",
                    !.resp = 0, !.body = "none"]

\* CancelledError is delivered.  A coroutine that never ran is closed without
\* entering its try block; otherwise the stack unwinds (the async with releases
\* the connection) into lines 663-669.
cancel_delivered(w, t) ==
    IF w.tasks[t].pc = "created"
    THEN [w EXCEPT !.tasks[t].pc = "done", !.tasks[t].exit = "unstarted"]
    ELSE watch_loop_finally(release(w, t), t, "cancelled")

(***************************************************************************)
(* The worker's methods.                                                   *)
(***************************************************************************)
\* a stop_watching that forgets to cancel the running task
cancel_watching_task_forgotten(tsks) == tsks

\* stop_watching lines 641-642 / stop lines 524-525
cancel_watching_task(tsks) ==
    IF watching_task # 0
    THEN [tsks EXCEPT ![watching_task] = Task_cancel(@)]
    ELSE tsks

\* AccountWorker.stop_watching, lines 639-644
stop_watching ==
    /\ tasks' = cancel_watching_task(tasks)
    /\ watching_channel' = None
    /\ UNCHANGED <<is_running, watching_task, nTasks, stream, spade, leaked, watch_noop>>
    /\ UNCHANGED trackerVars

\* a watch() without the early return of lines 632-633
watch_restarts(c) ==
    /\ nTasks < MaxTasks
    /\ tasks' = [cancel_watching_task(tasks) EXCEPT ![nTasks + 1] = NewTask(c)]
    /\ watching_channel' = c
    /\ watching_task' = nTasks + 1
    /\ nTasks' = nTasks + 1
    /\ watch_noop' = FALSE
    /\ UNCHANGED <<is_running, stream, spade, leaked>>
    /\ UNCHANGED trackerVars

\* AccountWorker.watch, lines 630-637
watch(c) ==
    IF watching_channel # None /\ channel_id(watching_channel) = channel_id(c)
    THEN /\ watch_noop' = TRUE
         /\ UNCHANGED <<is_running, watching_channel, watching_task, tasks, nTasks,
                        stream, spade, leaked>>
         /\ UNCHANGED trackerVars
    ELSE /\ nTasks < MaxTasks
         /\ tasks' = [cancel_watching_task(tasks) EXCEPT ![nTasks + 1] = NewTask(c)]
         /\ watching_channel' = c
         /\ watching_task' = nTasks + 1
         /\ nTasks' = nTasks + 1
         /\ watch_noop' = FALSE
         /\ UNCHANGED <<is_running, stream, spade, leaked>>
         /\ UNCHANGED trackerVars

\* AccountWorker.stop, lines 522-529
stop ==
    /\ is_running' = FALSE
    /\ tasks' = cancel_watching_task(tasks)
    /\ UNCHANGED <<watching_channel, watching_task, nTasks, stream, spade, leaked,
                   watch_noop>>
    /\ UNCHANGED trackerVars

(***************************************************************************)
(* The steps of the tasks, as the event loop runs them.                    *)
(***************************************************************************)
TaskFrame ==
    UNCHANGED <<is_running, watching_task, nTasks, watch_noop>> /\ UNCHANGED trackerVars

\* a cancellation that Task.cancel() has requested and the event loop has not
\* delivered yet
CancelPending(u) == tasks[u].cancel /\ tasks[u].pc # "done"

\* The event loop runs its ready callbacks in the order they were scheduled.
\* Task.cancel() schedules the wakeup of the cancelled task at once, and the one
\* loop that is not cancelled is the task the latest watch() has created, after
\* every cancel(): a task takes a step of its own only when no cancellation is
\* waiting to be delivered.
Runnable(t, pcs) ==
    /\ t \in TaskIds
    /\ tasks[t].pc \in pcs
    /\ ~tasks[t].cancel
    /\ \A u \in TaskIds : ~CancelPending(u)

TaskStart(t) ==
    /\ Runnable(t, {"created"})
    /\ Commit(watch_loop_start(W, t))
    /\ TaskFrame

\* the attempts of one call fail at most MaxExp times in a row
TaskResponse(t) ==
    /\ Runnable(t, {"send"})
    /\ \E neterr \in BOOLEAN, status \in StatusCodes, aclose \in BOOLEAN :
          /\ (neterr \/ status >= 500) => tasks[t].exp < MaxExp
          /\ Commit(session_request_returns(W, t, neterr, status, aclose))
    /\ TaskFrame

\* the same step during an outage of any length
TaskResponseOutage(t) ==
    /\ Runnable(t, {"send"})
    /\ \E neterr \in BOOLEAN, status \in StatusCodes, aclose \in BOOLEAN :
          Commit(session_request_returns(W, t, neterr, status, aclose))
    /\ TaskFrame

TaskBackoffDone(t) ==
    /\ Runnable(t, {"backoff", "backoff_held"})
    /\ Commit(backoff_done(W, t))
    /\ TaskFrame

TaskBody(t) ==
    /\ Runnable(t, {"yielded"})
    /\ \E r \in BodyOutcomes(tasks[t].site) : Commit(body_read(W, t, r))
    /\ TaskFrame

TaskIntervalDone(t) ==
    /\ Runnable(t, {"sleep"})
    /\ Commit(interval_done(W, t))
    /\ TaskFrame

TaskCancelled(t) ==
    /\ t \in TaskIds
    /\ tasks[t].cancel
    /\ tasks[t].pc # "done"
    /\ Commit(cancel_delivered(W, t))
    /\ TaskFrame

\* the event loop finalizes a generator that was left suspended: its async with
\* is closed and the connection released
asyncgen_finalize ==
    /\ leaked
    /\ leaked' = FALSE
    /\ UNCHANGED <<is_running, watching_channel, watching_task, tasks, nTasks, stream,
                   spade, watch_noop>>
    /\ UNCHANGED trackerVars

TaskStep(t) ==
    \/ TaskStart(t)
    \/ TaskResponse(t)
    \/ TaskBackoffDone(t)
    \/ TaskBody(t)
    \/ TaskIntervalDone(t)
    \/ TaskCancelled(t)


(***************************************************************************)
(* GQLOperation and the operation registry, lines 49-78.                   *)
(***************************************************************************)
\* the keys and values of the variables of an operation; Missing: the dict has
\* no such key
VarKeys == {"channel", "slug"}
VarValues == {"v1", "v2"}
Missing == "missing"

\* a dict of variables: per key, its value or Missing
VarDicts == [VarKeys -> VarValues \cup {Missing}]
EmptyDict == [k \in VarKeys |-> Missing]

\* GQLOperation.__init__, lines 50-56: the key "variables" is set only when the
\* argument is not None
GQLOperation(name, sha256, has_variables, variables) ==
    [operationName |-> name, sha256Hash |-> sha256,
     has_variables |-> has_variables,
     variables |-> IF has_variables THEN variables ELSE EmptyDict]

\* dict.update: the keys of extra replace those of d
dict_update(d, extra) == [k \in VarKeys |-> IF extra[k] # Missing THEN extra[k] ELSE d[k]]

\* a with_variables() that updates the variables of the operation it is called
\* on and returns that operation
with_variables_in_place(op, variables) ==
    LET updated == [op EXCEPT !.has_variables = TRUE,
                              !.variables = dict_update(op.variables, variables)]
    IN  [result |-> updated, self |-> updated, same_object |-> TRUE]

\* GQLOperation.with_variables, lines 58-65: what it returns, what the operation
\* it was called on is afterwards, and whether the two are one object.  The copy
\* of line 59 is a new dict (of self's variables, or of a new empty dict when
\* self has none); line 60 updates the copy; lines 61-65 construct a new
\* operation.
with_variables(op, variables) ==
    LET new_vars == dict_update(op.variables, variables)
    IN  [result |-> GQLOperation(op.operationName, op.sha256Hash, TRUE, new_vars),
         self |-> op, same_object |-> FALSE]

\* GQL_OPERATIONS, lines 68-78
GQL_OPERATIONS ==
    [ViewerDropsDashboard |->
         GQLOperation("ViewerDropsDashboard",
             "5a4da2ab3d5b47c9f9ce864e727b2cb346af1e3ea8b897fe8f704a97ff017619", FALSE, EmptyDict),
     Inventory |->
         GQLOperation("Inventory",
             "d86775d0ef16a63a33ad52e80eaff963b2d5b72fada7c991504a57496e1d8e4b", FALSE, EmptyDict),
     ClaimDrop |->
         GQLOperation("DropsPage_ClaimDropRewards",
             "a455deea71bdc9015b78eb49f4acfbce8baa7ccbedd28e549bb025bd0f751930", FALSE, EmptyDict),
     GameDirectory |->
         GQLOperation("DirectoryPage_Game",
             "c7c9d5aad09155c4161d2382092dc44610367f3536aac39019ec2582ae5065f9", FALSE, EmptyDict),
     GetStreamInfo |->
         GQLOperation("VideoPlayerStreamInfoOverlayChannel",
             "198492e0857f6aedead9665c81c5a06d67b25b58034649687124083ff288597d", FALSE, EmptyDict),
     StreamInfo |->
         GQLOperation("StreamInfo",
             "c338bd15737588308cf8e39395aab6035176e2b6055057c569171db0739c6efc", FALSE, EmptyDict),
     PlaybackAccessToken |->
         GQLOperation("PlaybackAccessToken",
             "0828119abb1010bd2f8695823949422059320815431d9c96275011038bd3879e", FALSE, EmptyDict),
     Current_user |->
         GQLOperation("Current_user",
             "04e4285478e023aa314391066046e4777a0877d84c57429049d61951ef621ec7", FALSE, EmptyDict)]

\* the registry keys whose operation the worker calls with_variables() on
\* (lines 114, 213, 252 and 610)
VariedKeys == {"ClaimDrop", "GetStreamInfo", "PlaybackAccessToken", "GameDirectory"}

\* made: no call of with_variables() yet
NoOperation == GQLOperation("", "", FALSE, EmptyDict)
NotMade == [key |-> None, base |-> NoOperation, extra |-> EmptyDict,
            result |-> NoOperation, self |-> NoOperation, same_object |-> FALSE]

(***************************************************************************)
(* Session setup: AccountWorker._initialize_session, lines 431-463, as     *)
(* main() of src/main.py calls it.                                         *)
(***************************************************************************)
\* the credentials an account configuration can supply
ConfigForms == {"auth_token", "cookies", "both"}

\* line 434: "auth_token" in self.config
has_auth_token(config) == config \in {"auth_token", "both"}

\* session: config is the form of the credential and valid whether the platform
\* accepts it; pc is where main() is: "new" (before _initialize_session),
\* "validate" (awaiting the answer of line 438), "current_user" (awaiting the
\* answer of line 451), "interactive" (setup has returned, interactive_mode
\* runs), "ended" (an exception has reached main's except clause and stop() has
\* run); user_id is "none", "own" (read from the answer) or "default" (the
\* number of line 458); error is what left _initialize_session(); given says
\* the configuration has a username, and username is AccountWorker.username:
\* "none", "configured" (line 336), "reported" (the login of the answer) or
\* "psdpz51" (line 460).
SessionNew(config, valid, given) ==
    [config |-> config, valid |-> valid, pc |-> "new", user_id |-> None, error |-> "none",
     given |-> given, username |-> IF given THEN "configured" ELSE None]

\* the session of a worker whose setup has succeeded
SessionValid ==
    [config |-> "auth_token", valid |-> TRUE, pc |-> "interactive", user_id |-> "own",
     error |-> "none", given |-> TRUE, username |-> "configured"]

\* what the platform answers to the validation request: 200, or 401 for a token
\* that is invalid or expired
ValidateStatuses(valid) == IF valid THEN {200} ELSE {401}

\* what gql_request(Current_user) does: it returns the user, returns a null
\* currentUser, or raises GQLException; with a credential the platform does not
\* accept it is one of the last two, and the API can answer an accepted
\* credential with an error as well
CurrentUserOutcomes(valid) ==
    IF valid THEN {"ok", "api_error"} ELSE {"null_user", "api_error"}

\* lines 443-445 and 452-454: the id of the answer is taken, and its login when
\* the worker has no username
identity_reported(s) ==
    [s EXCEPT !.pc = "interactive", !.user_id = "own",
              !.username = IF @ = None THEN "reported" ELSE @]


\* lines 438-445: the answer to the validation request
initialize_session_validated(s, status) ==
    IF status = 401
    THEN [s EXCEPT !.pc = "ended", !.error = "MinerException"]
    ELSE identity_reported(s)

\* lines 450-460: the answer to the Current_user query; every exception is
\* caught at line 454 and the user id of line 458 is taken
initialize_session_current_user(s, outcome) ==
    IF outcome = "ok"
    THEN identity_reported(s)
    ELSE [s EXCEPT !.pc = "interactive", !.user_id = "default", !.username = "psdpz51"]

(***************************************************************************)
(* The campaign/drop tracker: TimedDrop, DropsCampaign and                 *)
(* AccountWorker.fetch_inventory.                                          *)
(***************************************************************************)
CampaignIds == {"k1", "k2"}
DropIds == {"d1", "d2"}
CampaignStatuses == {"ACTIVE", "EXPIRED"}

\* the "self" object of a drop in a response; present = FALSE: the key is missing
NoSelf == [present |-> FALSE, dropInstanceID |-> None, isClaimed |-> FALSE,
           currentMinutesWatched |-> 0]

SelfData == [present : {TRUE}, dropInstanceID : {None, "tok"}, isClaimed : BOOLEAN,
             currentMinutesWatched : 0..MaxMinutes]

\* a TimedDrop whose constructor does not clamp the minutes of a claimed drop
TimedDrop_init_unclamped(data) ==
    [id |-> data.id,
     claim_id |-> IF data.self.present THEN data.self.dropInstanceID ELSE None,
     is_claimed |-> IF data.self.present THEN data.self.isClaimed ELSE FALSE,
     current_minutes |-> IF data.self.present THEN data.self.currentMinutesWatched ELSE 0,
     required_minutes |-> data.requiredMinutesWatched]

\* TimedDrop.__init__, lines 92-101
TimedDrop_init(data) ==
    LET claimed == IF data.self.present THEN data.self.isClaimed ELSE FALSE
        current == IF data.self.present THEN data.self.currentMinutesWatched ELSE 0
    IN  [id |-> data.id,
         claim_id |-> IF data.self.present THEN data.self.dropInstanceID ELSE None,
         is_claimed |-> claimed,
         current_minutes |-> IF claimed THEN data.requiredMinutesWatched ELSE current,
         required_minutes |-> data.requiredMinutesWatched]

\* a can_claim that holds for every unclaimed drop that has a token or has
\* reached its required minutes
can_claim_when_watched(d) ==
    ~d.is_claimed /\ (d.claim_id # None \/ d.current_minutes >= d.required_minutes)

\* TimedDrop.can_claim, lines 106-108
can_claim(d) == d.claim_id # None /\ ~d.is_claimed

\* what gql_request() does for the caller of a claim: it returns, raises
\* GQLException, or raises something else (no MinerException)
ClaimOutcomes == {"ok", "api_error", "other_error"}

\* a claim() that marks the drop before the call has answered
TimedDrop_claim_eager(d, outcome) ==
    IF ~can_claim(d)
    THEN [drop |-> d, issued |-> FALSE, raised |-> FALSE]
    ELSE [drop |-> [d EXCEPT !.is_claimed = TRUE, !.current_minutes = d.required_minutes],
          issued |-> TRUE,
          raised |-> outcome = "other_error"]

\* a claim() that marks the drop claimed and leaves its minutes alone
TimedDrop_claim_no_minutes(d, outcome) ==
    IF ~can_claim(d)
    THEN [drop |-> d, issued |-> FALSE, raised |-> FALSE]
    ELSE [drop |-> IF outcome = "ok" THEN [d EXCEPT !.is_claimed = TRUE] ELSE d,
          issued |-> TRUE,
          raised |-> outcome = "other_error"]

\* a claim() without the early return of line 111
TimedDrop_claim_unguarded(d, outcome) ==
    [drop |-> IF outcome = "ok"
              THEN [d EXCEPT !.is_claimed = TRUE, !.current_minutes = d.required_minutes]
              ELSE d,
     issued |-> TRUE,
     raised |-> outcome = "other_error"]

\* TimedDrop.claim, lines 110-120: the drop afterwards, whether a claim call was
\* issued, and whether an exception leaves claim()
TimedDrop_claim(d, outcome) ==
    IF ~can_claim(d)
    THEN [drop |-> d, issued |-> FALSE, raised |-> FALSE]
    ELSE [drop |-> IF outcome = "ok"
                   THEN [d EXCEPT !.is_claimed = TRUE,
                                  !.current_minutes = d.required_minutes]
                   ELSE d,
          issued |-> TRUE,
          raised |-> outcome = "other_error"]

\* DropsCampaign.__init__, lines 123-135
DropsCampaign_init(data) ==
    [id |-> data.id,
     game |-> data.game,
     starts_at |-> data.startAt,
     ends_at |-> data.endAt,
     timed_drops |-> [i \in 1..Len(data.timeBasedDrops) |->
                          TimedDrop_init(data.timeBasedDrops[i])]]

\* a campaign that is still active at the instant it ends
DropsCampaign_active_closed(c, now) == c.starts_at <= now /\ now <= c.ends_at

\* DropsCampaign.active, lines 137-140; now is datetime.now(timezone.utc)
DropsCampaign_active(c, now) == c.starts_at <= now /\ now < c.ends_at

\* a finished that is all() over the drops, whatever their number
DropsCampaign_finished_vacuous(c) ==
    \A i \in 1..Len(c.timed_drops) : c.timed_drops[i].is_claimed

\* DropsCampaign.finished, lines 142-150
DropsCampaign_finished(c) ==
    IF Len(c.timed_drops) = 0
    THEN FALSE
    ELSE \A i \in 1..Len(c.timed_drops) : c.timed_drops[i].is_claimed

\* DropsCampaign.can_earn(), lines 152-158: what it reads of its two properties
\* and what it returns
DropsCampaign_can_earn(c, now) ==
    LET is_active == DropsCampaign_active(c, now)
        is_not_finished == ~DropsCampaign_finished(c)
    IN  [active |-> is_active, finished |-> ~is_not_finished,
         can_earn |-> is_active /\ is_not_finished]

\* fetch_inventory lines 550-560: the progress of the inventory response is
\* merged into the campaigns of the dashboard response, matched by id.  prog is
\* the inventory response: the campaigns in progress and, per drop id, whether
\* the drop is listed there and with which self.
merge_drop(drop, prog) ==
    IF prog.drops[drop.id].listed
    THEN [drop EXCEPT !.self = prog.drops[drop.id].self]
    ELSE drop

merge_progress(dash, prog) ==
    [c \in 1..Len(dash) |->
        IF dash[c].id \in prog.campaigns
        THEN [dash[c] EXCEPT !.timeBasedDrops =
                 [i \in 1..Len(dash[c].timeBasedDrops) |->
                     merge_drop(dash[c].timeBasedDrops[i], prog)]]
        ELSE dash[c]]

\* a list built of every campaign of the response, whatever its status
all_statuses_campaigns(final) == [c \in 1..Len(final) |-> DropsCampaign_init(final[c])]

\* line 563: the campaigns with status ACTIVE, in the order of the response
RECURSIVE active_campaigns(_)
active_campaigns(final) ==
    IF final = <<>> THEN <<>>
    ELSE (IF Head(final).status = "ACTIVE" THEN <<DropsCampaign_init(Head(final))>> ELSE <<>>)
         \o active_campaigns(Tail(final))

\* the drops of the list, as (campaign, drop) places; the loops of lines 577-578
\* visit them in the order Before
DropPositions(inv) ==
    UNION {{<<c, i>> : i \in 1..Len(inv[c].timed_drops)} : c \in 1..Len(inv)}

Before(p, q) == p[1] < q[1] \/ (p[1] = q[1] /\ p[2] < q[2])

DropAt(inv, p) == inv[p[1]].timed_drops[p[2]]

Claimable(inv) == {p \in DropPositions(inv) : can_claim(DropAt(inv, p))}

CampaignIdsOf(inv) == [c \in 1..Len(inv) |-> inv[c].id]

\* Channel objects of the channel map: the platform id, the game the directory
\* listed the channel under, and the call of fetch_channels() that made the
\* object; made = 0: the map has no entry for the id.
ChanIds == {1, 2}
Games == {"g1", "g2"}
NoChannel == [id |-> 0, game |-> None, made |-> 0]
NoChannels == [i \in ChanIds |-> NoChannel]

\* fc: pc is "idle" or "query" (awaiting the directory query of game number i of
\* the priority list); call counts the calls; result says how the last call
\* ended; queried and failed are the games of the list this call has queried and
\* whose query ended in GQLException; had is the number of entries the map held
\* when the call began.
FcIdle == [pc |-> "idle", priority |-> <<>>, i |-> 0, call |-> 0, result |-> "none",
           queried |-> {}, failed |-> {}, had |-> 0]

\* asked: nothing was evaluated yet
NotAsked == [c |-> 0, now |-> 0, active |-> FALSE, finished |-> FALSE, can_earn |-> FALSE]

\* what the last claim() call did: on which drop, whether it issued a claim call,
\* and how that call ended
NoCall == [pos |-> <<0, 0>>, issued |-> FALSE, outcome |-> "none"]

\* fi: pc is "idle" or "claiming" (inside the loop of lines 577-580); pos is the
\* last drop that loop has handled; result says how the last fetch_inventory()
\* ended ("returned" or "raised"), cause what ended it early; built, builtIds,
\* claimable, attempted and failed record the list line 563 built, the drops that
\* were claimable then, and the claims attempted and failed by this call; held
\* is the number of campaigns the list held when a failed call began; reported
\* is the id and status of every campaign of the dashboard response of the call.
FiIdle == [pc |-> "idle", pos |-> <<0, 0>>, result |-> "none", cause |-> "none",
           built |-> FALSE, builtIds |-> <<>>, claimable |-> {}, attempted |-> {},
           failed |-> {}, last |-> NoCall, held |-> 0, reported |-> <<>>]

Init ==
    /\ is_running = TRUE
    /\ watching_channel = None
    /\ watching_task = 0
    /\ tasks = [t \in 1..MaxTasks |-> NoTask]
    /\ nTasks = 0
    /\ stream = [c \in ChannelObjs |-> FALSE]
    /\ spade = [c \in ChannelObjs |-> None]
    /\ leaked = FALSE
    /\ watch_noop = FALSE
    /\ inventory = <<>>
    /\ fi = FiIdle
    /\ channels = NoChannels
    /\ fc = FcIdle
    /\ asked = NotAsked
    /\ registry = GQL_OPERATIONS
    /\ made = NotMade
    /\ session = SessionValid

\* c1b, the second object of c1's platform channel, is handed to watch() while
\* c1 is the current channel.
Next ==
    \/ \E c \in ChannelObjs : (c = "c1b" => watching_channel = "c1") /\ watch(c)
    \/ stop_watching
    \/ stop
    \/ \E t \in 1..MaxTasks : TaskStep(t)
    \/ asyncgen_finalize

Spec == Init /\ [][Next]_vars

(***************************************************************************)
(* The responses the server gives to fetch_inventory().                    *)
(***************************************************************************)
CampaignOrder == <<"k1", "k2">>

\* the game each campaign of the responses is for
CampaignGame(k) == IF k = "k1" THEN "g1" ELSE "g2"
DropOrder == <<"d1", "d2">>

DashDrop(d, req, self) == [id |-> d, requiredMinutesWatched |-> req, self |-> self]

\* A dashboard response: the campaigns of P, with the statuses st, each with the
\* drops that asg gives it; every drop id belongs to at most one campaign.
dashboard_of(P, st, asg, req) ==
    LET InP(k) == k \in P
        ks == SelectSeq(CampaignOrder, InP)
    IN  [c \in 1..Len(ks) |->
            LET Mine(d) == asg[d] = ks[c]
                ds == SelectSeq(DropOrder, Mine)
            IN  [id |-> ks[c], status |-> st[ks[c]], game |-> CampaignGame(ks[c]),
                 startAt |-> 0, endAt |-> MaxTime,
                 timeBasedDrops |-> [i \in 1..Len(ds) |-> DashDrop(ds[i], req[ds[i]], NoSelf)]]]

DashboardResponses ==
    {dashboard_of(P, st, asg, [d \in DropIds |-> MaxMinutes]) :
        P \in SUBSET CampaignIds,
        st \in [CampaignIds -> CampaignStatuses],
        asg \in [DropIds -> CampaignIds \cup {None}]}

\* the selves an inventory response reports: a drop ready to claim, a claimed
\* drop whose minutes were not brought up, a drop still in progress
InventorySelves ==
    {[present |-> TRUE, dropInstanceID |-> "tok", isClaimed |-> FALSE,
      currentMinutesWatched |-> MaxMinutes],
     [present |-> TRUE, dropInstanceID |-> "tok", isClaimed |-> TRUE,
      currentMinutesWatched |-> 0],
     [present |-> TRUE, dropInstanceID |-> None, isClaimed |-> FALSE,
      currentMinutesWatched |-> 1]}

InventoryResponses ==
    [campaigns : SUBSET CampaignIds,
     drops : [DropIds -> {[listed |-> FALSE, self |-> NoSelf]}
                          \cup [listed : {TRUE}, self : InventorySelves]]]

GqlOutcomes == {"ok", "api_error", "other_error"}

(***************************************************************************)
(* fetch_inventory, lines 531-584, and claim() called on a tracked drop.   *)
(***************************************************************************)
\* a fetch_inventory() that keeps its old list when a call fails
fetch_failed_keeps_list(inv, outcome) ==
    IF outcome = "api_error"
    THEN [inventory |-> inv,
          fi |-> [FiIdle EXCEPT !.result = "returned", !.cause = "api_error",
                               !.held = Len(inv)]]
    ELSE [inventory |-> inv,
          fi |-> [FiIdle EXCEPT !.result = "raised", !.cause = "other_error",
                               !.held = Len(inv)]]

\* lines 582-584: a GQLException of the dashboard or inventory call is caught, the
\* list is emptied and fetch_inventory() returns; any other exception leaves it
fetch_failed(inv, outcome) ==
    IF outcome = "api_error"
    THEN [inventory |-> <<>>,
          fi |-> [FiIdle EXCEPT !.result = "returned", !.cause = "api_error",
                               !.held = Len(inv)]]
    ELSE [inventory |-> inv,
          fi |-> [FiIdle EXCEPT !.result = "raised", !.cause = "other_error",
                               !.held = Len(inv)]]

\* lines 549-564: the list is built; the claim loop starts
fetch_built(dash, prog) ==
    LET inv == active_campaigns(merge_progress(dash, prog))
    IN  [inventory |-> inv,
         fi |-> [FiIdle EXCEPT !.pc = "claiming", !.built = TRUE,
                               !.builtIds = CampaignIdsOf(inv),
                               !.reported = [c \in 1..Len(dash) |->
                                                [id |-> dash[c].id, status |-> dash[c].status]],
                               !.claimable = Claimable(inv)]]

\* what fetch_inventory() builds, over every pair of responses
FetchResults ==
    {fetch_built(dash, prog) : dash \in DashboardResponses, prog \in InventoryResponses}

SetDrop(inv, p, d) == [inv EXCEPT ![p[1]].timed_drops[p[2]] = d]

CallOf(p, r, outcome) ==
    [pos |-> p, issued |-> r.issued, outcome |-> IF r.issued THEN outcome ELSE "none"]

\* a claim() whose GQLException is not caught in claim(): it reaches the except
\* clause of fetch_inventory()
claim_in_fetch_uncaught(inv, f, p, outcome) ==
    LET r == TimedDrop_claim(DropAt(inv, p), outcome)
        f1 == [f EXCEPT !.attempted = @ \cup {p}, !.last = CallOf(p, r, outcome)]
    IN  IF r.raised
        THEN [inventory |-> SetDrop(inv, p, r.drop),
              fi |-> [f1 EXCEPT !.pc = "idle", !.result = "raised", !.cause = "other_error"]]
        ELSE IF outcome = "api_error"
        THEN [inventory |-> <<>>,
              fi |-> [f1 EXCEPT !.pc = "idle", !.result = "returned", !.cause = "api_error",
                                !.failed = @ \cup {p}]]
        ELSE [inventory |-> SetDrop(inv, p, r.drop), fi |-> [f1 EXCEPT !.pos = p]]

\* line 580 inside the loops of lines 577-579: await drop.claim() on the drop at p
claim_in_fetch(inv, f, p, outcome) ==
    LET r == TimedDrop_claim(DropAt(inv, p), outcome)
        f1 == [f EXCEPT !.attempted = @ \cup {p}, !.last = CallOf(p, r, outcome)]
    IN  IF r.raised
        THEN [inventory |-> SetDrop(inv, p, r.drop),
              fi |-> [f1 EXCEPT !.pc = "idle", !.result = "raised", !.cause = "other_error"]]
        ELSE [inventory |-> SetDrop(inv, p, r.drop),
              fi |-> [f1 EXCEPT !.pos = p,
                                !.failed = IF outcome = "api_error" THEN @ \cup {p} ELSE @]]

CommitTracker(x) ==
    /\ inventory' = x.inventory
    /\ fi' = x.fi
    /\ UNCHANGED <<channels, fc, asked, registry, made, session>>
    /\ UNCHANGED watchVars

\* lines 534-564: the dashboard call, the inventory call, the merge and the list
fetch_inventory_calls ==
    /\ fi.pc = "idle"
    /\ \/ \E dashOutcome \in GqlOutcomes, invOutcome \in GqlOutcomes :
             /\ dashOutcome # "ok" \/ invOutcome # "ok"
             /\ CommitTracker(fetch_failed(inventory,
                                  IF dashOutcome # "ok" THEN dashOutcome ELSE invOutcome))
       \/ \E built \in FetchResults : CommitTracker(built)

\* lines 577-580: the loops go on to the next drop whose can_claim holds and claim
\* it; with none left, fetch_inventory() returns
fetch_inventory_claim ==
    /\ fi.pc = "claiming"
    /\ LET rest == {p \in Claimable(inventory) : Before(fi.pos, p)}
       IN  IF rest = {}
           THEN CommitTracker([inventory |-> inventory,
                               fi |-> [fi EXCEPT !.pc = "idle", !.result = "returned"]])
           ELSE LET p == CHOOSE q \in rest : \A o \in rest : o = q \/ Before(q, o)
                IN  \E outcome \in ClaimOutcomes :
                        CommitTracker(claim_in_fetch(inventory, fi, p, outcome))

\* claim() called by the worker's user on a tracked drop
claim(p, outcome) ==
    /\ fi.pc = "idle"
    /\ p \in DropPositions(inventory)
    /\ LET r == TimedDrop_claim(DropAt(inventory, p), outcome)
       IN  CommitTracker([inventory |-> SetDrop(inventory, p, r.drop),
                          fi |-> [fi EXCEPT !.last = CallOf(p, r, outcome)]])

ClaimAny == \E p \in (1..2) \X (1..2), outcome \in ClaimOutcomes : claim(p, outcome)

(***************************************************************************)
(* fetch_channels, lines 586-628.                                          *)
(***************************************************************************)
\* the priority lists of the settings
PriorityLists ==
    {<<>>} \cup {<<g>> : g \in Games} \cup {<<g, h>> : g \in Games, h \in Games}

\* lines 598-606: some tracked campaign has a game of that name
GameKnown(inv, g) == \E c \in 1..Len(inv) : inv[c].game = g

\* a fetch_channels that goes on with the map it has
fetch_channels_clear_kept(ch) == ch

\* line 588: self.channels = {}
fetch_channels_clear(ch) == NoChannels

\* a loop that queries the directory of every game of the list
fetch_channels_next_any_game(inv, f) ==
    IF f.i >= Len(f.priority)
    THEN [f EXCEPT !.pc = "idle", !.i = Len(f.priority), !.result = "returned"]
    ELSE [f EXCEPT !.pc = "query", !.i = f.i + 1, !.queried = @ \cup {f.i + 1}]

\* lines 595-610: the loop goes on to the next game of the list that a tracked
\* campaign has, and issues its directory query; with none left, line 628 and
\* the return
fetch_channels_next(inv, f) ==
    LET rest == {j \in (f.i + 1)..Len(f.priority) : GameKnown(inv, f.priority[j])}
    IN  IF rest = {}
        THEN [f EXCEPT !.pc = "idle", !.i = Len(f.priority), !.result = "returned"]
        ELSE LET j == CHOOSE k \in rest : \A o \in rest : k <= o
             IN  [f EXCEPT !.pc = "query", !.i = j, !.queried = @ \cup {j}]

\* lines 617-623: a Channel object is made for every listed broadcaster and put
\* into the map under its id
add_channels(ch, f, ids) ==
    [i \in ChanIds |->
        IF i \in ids THEN [id |-> i, game |-> f.priority[f.i], made |-> f.call] ELSE ch[i]]

\* a directory query whose GQLException ends the whole search
directory_answered_aborts(inv, ch, f, outcome, ids) ==
    IF outcome = "ok"
    THEN [channels |-> add_channels(ch, f, ids), fc |-> fetch_channels_next(inv, f)]
    ELSE IF outcome = "api_error"
    THEN [channels |-> ch,
          fc |-> [f EXCEPT !.pc = "idle", !.result = "returned", !.failed = @ \cup {f.i}]]
    ELSE [channels |-> add_channels(ch, f, ids),
          fc |-> [f EXCEPT !.pc = "idle", !.result = "raised"]]

\* lines 611-626: the directory query of game number f.i has ended.  ok: the
\* listed channels are added; api_error: GQLException, caught at line 625;
\* other_error: any other exception, raised by the call or while the channels
\* in ids had been added already, leaves fetch_channels().
directory_answered(inv, ch, f, outcome, ids) ==
    IF outcome = "ok"
    THEN [channels |-> add_channels(ch, f, ids), fc |-> fetch_channels_next(inv, f)]
    ELSE IF outcome = "api_error"
    THEN [channels |-> ch,
          fc |-> fetch_channels_next(inv, [f EXCEPT !.failed = @ \cup {f.i}])]
    ELSE [channels |-> add_channels(ch, f, ids),
          fc |-> [f EXCEPT !.pc = "idle", !.result = "raised"]]

CommitChannels(x) ==
    /\ channels' = x.channels
    /\ fc' = x.fc
    /\ UNCHANGED <<inventory, fi, asked, registry, made, session>>
    /\ UNCHANGED watchVars

\* lines 588-610: the call up to its first directory query, or to its return
fetch_channels_begin ==
    /\ fc.pc = "idle"
    /\ fi.pc = "idle"
    /\ fc.call < MaxFetch
    /\ \E priority \in PriorityLists :
          CommitChannels(
              [channels |-> fetch_channels_clear(channels),
               fc |-> fetch_channels_next(inventory,
                          [FcIdle EXCEPT !.priority = priority, !.call = fc.call + 1,
                                         !.had = Cardinality({i \in ChanIds :
                                                                 channels[i].made # 0})])])

fetch_channels_answer ==
    /\ fc.pc = "query"
    /\ \E outcome \in GqlOutcomes, ids \in SUBSET ChanIds :
          CommitChannels(directory_answered(inventory, channels, fc, outcome, ids))

\* The channel search over the campaign lists fetch_inventory() builds from
\* dashboards whose campaigns list no drops.
SearchInventories ==
    {active_campaigns(dashboard_of(P, st, [d \in DropIds |-> None],
                                   [d \in DropIds |-> MaxMinutes])) :
        P \in SUBSET CampaignIds, st \in [CampaignIds -> CampaignStatuses]}

InitChan ==
    /\ is_running = TRUE
    /\ watching_channel = None
    /\ watching_task = 0
    /\ tasks = [t \in 1..MaxTasks |-> NoTask]
    /\ nTasks = 0
    /\ stream = [c \in ChannelObjs |-> FALSE]
    /\ spade = [c \in ChannelObjs |-> None]
    /\ leaked = FALSE
    /\ watch_noop = FALSE
    /\ inventory \in SearchInventories
    /\ fi = FiIdle
    /\ channels = NoChannels
    /\ fc = FcIdle
    /\ asked = NotAsked
    /\ registry = GQL_OPERATIONS
    /\ made = NotMade
    /\ session = SessionValid

NextChan ==
    \/ fetch_channels_begin
    \/ fetch_channels_answer

SpecChan == InitChan /\ [][NextChan]_vars

NextInv ==
    \/ fetch_inventory_calls
    \/ fetch_inventory_claim
    \/ ClaimAny

SpecInv == Init /\ [][NextInv]_vars

\* lines 114, 213, 252, 610: with_variables() called on the operation registered
\* under key; the dict is what the caller passes
registry_with_variables(key, variables) ==
    /\ LET r == with_variables(registry[key], variables)
       IN  /\ made' = [key |-> key, base |-> registry[key], extra |-> variables,
                       result |-> r.result, self |-> r.self, same_object |-> r.same_object]
           /\ registry' = [registry EXCEPT ![key] = r.self]
    /\ UNCHANGED <<inventory, fi, channels, fc, asked, session>>
    /\ UNCHANGED watchVars

\* with_variables() called on an operation the last call has returned
made_with_variables(variables) ==
    /\ made.key # None
    /\ LET r == with_variables(made.result, variables)
       IN  made' = [key |-> "made", base |-> made.result, extra |-> variables,
                    result |-> r.result, self |-> r.self, same_object |-> r.same_object]
    /\ UNCHANGED registry
    /\ UNCHANGED <<inventory, fi, channels, fc, asked, session>>
    /\ UNCHANGED watchVars

RegistryWithVariables ==
    \E key \in VariedKeys, variables \in VarDicts : registry_with_variables(key, variables)

MadeWithVariables == \E variables \in VarDicts : made_with_variables(variables)

\* The operations the worker builds, from the registry and from one another.
NextGql ==
    \/ RegistryWithVariables
    \/ MadeWithVariables

SpecGql == Init /\ [][NextGql]_vars

\* main() and _initialize_session(): what they leave of the worker besides the
\* session
SessionFrame ==
    /\ UNCHANGED <<watching_channel, watching_task, tasks, nTasks, stream, spade, leaked,
                   watch_noop>>
    /\ UNCHANGED <<inventory, fi, channels, fc, asked, registry, made>>

\* main.py line 131 and core.py lines 431-438 or 448-451: setup begins and
\* issues its request
initialize_session_begin ==
    /\ session.pc = "new"
    /\ session' = [session EXCEPT !.pc = IF has_auth_token(session.config)
                                          THEN "validate" ELSE "current_user"]
    /\ UNCHANGED is_running
    /\ SessionFrame

\* the session afterwards decides main(): on an exception, main.py lines 137-140
\* log it and stop() the worker
main_after_setup(s) ==
    /\ session' = s
    /\ is_running' = IF s.pc = "ended" THEN FALSE ELSE is_running
    /\ SessionFrame

initialize_session_validate ==
    /\ session.pc = "validate"
    /\ \E status \in ValidateStatuses(session.valid) :
          main_after_setup(initialize_session_validated(session, status))

initialize_session_gql ==
    /\ session.pc = "current_user"
    /\ \E outcome \in CurrentUserOutcomes(session.valid) :
          main_after_setup(initialize_session_current_user(session, outcome))

\* main.py line 135 and lines 32-33: interactive_mode() fetches the inventory
interactive_mode_fetch ==
    /\ session.pc = "interactive"
    /\ \/ fetch_inventory_calls
       \/ fetch_inventory_claim

InitSession ==
    /\ is_running = TRUE
    /\ watching_channel = None
    /\ watching_task = 0
    /\ tasks = [t \in 1..MaxTasks |-> NoTask]
    /\ nTasks = 0
    /\ stream = [c \in ChannelObjs |-> FALSE]
    /\ spade = [c \in ChannelObjs |-> None]
    /\ leaked = FALSE
    /\ watch_noop = FALSE
    /\ inventory = <<>>
    /\ fi = FiIdle
    /\ channels = NoChannels
    /\ fc = FcIdle
    /\ asked = NotAsked
    /\ registry = GQL_OPERATIONS
    /\ made = NotMade
    /\ \E config \in ConfigForms, valid \in BOOLEAN, given \in BOOLEAN :
          session = SessionNew(config, valid, given)

NextSession ==
    \/ initialize_session_begin
    \/ initialize_session_validate
    \/ initialize_session_gql
    \/ interactive_mode_fetch

SpecSession == InitSession /\ [][NextSession]_vars

\* One campaign as the constructors build it from whatever the server reports.
DropDatas == [id : DropIds, requiredMinutesWatched : 1..MaxMinutes,
              self : SelfData \cup {NoSelf}]

CampaignDatas ==
    {[id |-> "k1", status |-> "ACTIVE", game |-> "g1", startAt |-> 0, endAt |-> MaxTime,
      timeBasedDrops |-> ds] :
        ds \in {<<>>} \cup {<<d>> : d \in {x \in DropDatas : x.id = "d1"}}
               \cup {<<d, e>> : d \in {x \in DropDatas : x.id = "d1"},
                                e \in {x \in DropDatas : x.id = "d2"}}}

InitDrop ==
    /\ is_running = TRUE
    /\ watching_channel = None
    /\ watching_task = 0
    /\ tasks = [t \in 1..MaxTasks |-> NoTask]
    /\ nTasks = 0
    /\ stream = [c \in ChannelObjs |-> FALSE]
    /\ spade = [c \in ChannelObjs |-> None]
    /\ leaked = FALSE
    /\ watch_noop = FALSE
    /\ \E data \in CampaignDatas : inventory = <<DropsCampaign_init(data)>>
    /\ fi = FiIdle
    /\ channels = NoChannels
    /\ fc = FcIdle
    /\ asked = NotAsked
    /\ registry = GQL_OPERATIONS
    /\ made = NotMade
    /\ session = SessionValid

NextDrop == ClaimAny

\* can_earn() called on a tracked campaign, its clock reading now
can_earn(c, now) ==
    /\ fi.pc = "idle"
    /\ c \in 1..Len(inventory)
    /\ LET r == DropsCampaign_can_earn(inventory[c], now)
       IN  asked' = [c |-> c, now |-> now, active |-> r.active,
                     finished |-> r.finished, can_earn |-> r.can_earn]
    /\ UNCHANGED <<inventory, fi, channels, fc, registry, made, session>>
    /\ UNCHANGED watchVars

CanEarnAny == \E c \in 1..2, now \in 0..MaxTime : can_earn(c, now)

\* One campaign with any start and end, its drops claimed one by one, asked at
\* any time whether it can earn.
CampaignPeriods ==
    {[d EXCEPT !.startAt = s, !.endAt = e] :
        d \in CampaignDatas, s \in 0..MaxTime, e \in 0..MaxTime}

InitCampaign ==
    /\ is_running = TRUE
    /\ watching_channel = None
    /\ watching_task = 0
    /\ tasks = [t \in 1..MaxTasks |-> NoTask]
    /\ nTasks = 0
    /\ stream = [c \in ChannelObjs |-> FALSE]
    /\ spade = [c \in ChannelObjs |-> None]
    /\ leaked = FALSE
    /\ watch_noop = FALSE
    /\ \E data \in CampaignPeriods : inventory = <<DropsCampaign_init(data)>>
    /\ fi = FiIdle
    /\ channels = NoChannels
    /\ fc = FcIdle
    /\ asked = NotAsked
    /\ registry = GQL_OPERATIONS
    /\ made = NotMade
    /\ session = SessionValid

NextCampaign ==
    \/ ClaimAny
    \/ CanEarnAny

SpecCampaign == InitCampaign /\ [][NextCampaign]_vars

SpecDrop == InitDrop /\ [][NextDrop]_vars

\* One call of request(), the first of a loop (the GetStreamInfo call made by
\* update_stream), during an outage of any length.
InitReq ==
    /\ is_running = TRUE
    /\ watching_channel = "c1"
    /\ watching_task = 1
    /\ tasks = [t \in 1..MaxTasks |-> IF t = 1 THEN NewTask("c1") ELSE NoTask]
    /\ nTasks = 1
    /\ stream = [c \in ChannelObjs |-> FALSE]
    /\ spade = [c \in ChannelObjs |-> None]
    /\ leaked = FALSE
    /\ watch_noop = FALSE
    /\ inventory = <<>>
    /\ fi = FiIdle
    /\ channels = NoChannels
    /\ fc = FcIdle
    /\ asked = NotAsked
    /\ registry = GQL_OPERATIONS
    /\ made = NotMade
    /\ session = SessionValid

ReqStart == TaskStart(1)

ReqResponse == tasks[1].site = "stream" /\ TaskResponseOutage(1)

ReqBackoffDone == tasks[1].site = "stream" /\ TaskBackoffDone(1)

ReqBody == tasks[1].site = "stream" /\ TaskBody(1)

NextReq ==
    \/ ReqStart
    \/ ReqResponse
    \/ ReqBackoffDone
    \/ ReqBody

SpecReq == InitReq /\ [][NextReq]_vars

\* The event loop runs every task that is ready: a response, a timer or a
\* cancellation is delivered in the end.  Nothing obliges the caller of the
\* worker's methods to call them.
FairSpec == Init /\ [][Next]_vars /\ \A t \in 1..MaxTasks : WF_vars(TaskStep(t))

(***************************************************************************)
(* The claims.                                                             *)
(***************************************************************************)
InRequest(t) == tasks[t].pc \in {"send", "backoff", "backoff_held", "yielded"}

\* a loop that can still run its body: not over and not cancelled
ActiveLoops == {t \in TaskIds : tasks[t].pc # "done" /\ ~tasks[t].cancel}

\* C1: when watch() starts a loop, every earlier loop has been cancelled or is
\* over, so no worker ever has two loops that are neither over nor cancelled; the
\* only such loop is the one _watching_task names.
C1_OneLoopPerWorker ==
    /\ Cardinality(ActiveLoops) <= 1
    /\ \A t \in ActiveLoops : t = watching_task

\* C1 witness: watch(c1) then watch(c2): the first loop, started, has its
\* cancellation pending when watch(c2) has created the second loop.
C1_Witness ==
    /\ nTasks = 2
    /\ tasks[1].pc = "cancelling" /\ tasks[1].chan = "c1"
    /\ tasks[2].pc = "created" /\ tasks[2].chan = "c2" /\ ~tasks[2].cancel
    /\ watching_task = 2 /\ watching_channel = "c2"

\* C2: a call of request() ends with a response handed to its caller or, when
\* the engine gives up, with RequestException: no call is ended by another error
\* of the engine's own, so no loop is ended by the OverflowError of the backoff.
C2_GivesUpWithRequestException ==
    \A t \in TaskIds : tasks[t].exit # "OverflowError"

\* The delay request() has drawn for the sleep after its attempt k.
BackoffDelay(k) ==
    IF k = 1 THEN 2 ELSE IF k = 2 THEN 4 ELSE IF k = 3 THEN 8
    ELSE IF k = 4 THEN 16 ELSE IF k = 5 THEN 32 ELSE 60

\* C13: the delay before retry k of a request() call is min(1 * 2^k, 60): 2, 4,
\* 8, 16, 32 for k = 1..5 and 60 from k = 6 on, for every k: when a sleep of the
\* engine is over, the backoff gives the next delay and the engine goes on.
C13_BackoffDelays ==
    [][\A t \in TaskIds :
          /\ tasks'[t].pc \in {"send", "backoff", "backoff_held"}
                => tasks'[t].delay = BackoffDelay(tasks'[t].exp)
          /\ tasks[t].pc \in {"backoff", "backoff_held"} /\ ~tasks'[t].cancel
                /\ tasks'[t] # tasks[t]
                => /\ tasks'[t].exp = tasks[t].exp + 1
                   /\ tasks'[t].delay = BackoffDelay(tasks[t].exp + 1)
                   /\ tasks'[t].delay >= tasks[t].delay]_vars

\* C3: no heartbeat POST is issued by a loop before update_stream() returned live,
\* and a loop whose update_stream() returned false is over, by its offline return,
\* with no heartbeat sent.
C3_OfflineSendsNothing ==
    \A t \in TaskIds :
        /\ tasks[t].hb > 0 => tasks[t].live = "live"
        /\ tasks[t].site \in {"page", "token", "playlist", "post"} => tasks[t].live = "live"
        /\ tasks[t].live = "offline" =>
               tasks[t].pc = "done" /\ tasks[t].exit = "offline" /\ tasks[t].hb = 0

\* C3 witness: a loop has ended because its channel was offline at the live check.
C3_Witness ==
    \E t \in TaskIds :
        tasks[t].pc = "done" /\ tasks[t].exit = "offline" /\ tasks[t].live = "offline"

\* C4: a request() call that has exited holds no connection: a task outside
\* request() holds none, and no exited call has left one behind.
C4_ReleasedOnEveryExit ==
    /\ ~leaked
    /\ \A t \in TaskIds : ~InRequest(t) /\ tasks[t].pc # "cancelling" => ~tasks[t].conn

\* C5: a failed heartbeat does not end the loop.  A loop that is not cancelled
\* and whose channel was live ends only in a step that finds the while condition
\* false; after a send_watch() that returned false the loop sleeps WATCH_INTERVAL
\* seconds; and when that sleep ends with the channel still current and the
\* worker running, the loop starts the next send_watch().
C5_FailedHeartbeatKeepsLoop ==
    [][\A t \in TaskIds :
         /\ (tasks[t].pc # "done" /\ tasks'[t].pc = "done"
                 /\ ~tasks[t].cancel /\ tasks[t].live = "live")
            => ~(is_running /\ watching_channel = tasks[t].chan)
         /\ (tasks'[t].lastSend = "fail" /\ tasks'[t].pc = "sleep")
            => tasks'[t].timer = WATCH_INTERVAL
         /\ (tasks[t].pc = "sleep" /\ tasks[t].lastSend = "fail" /\ tasks'[t] # tasks[t]
                 /\ ~tasks'[t].cancel /\ is_running /\ watching_channel = tasks[t].chan)
            => tasks'[t].pc = "send" /\ tasks'[t].site \in {"page", "post"}
      ]_vars

\* C5 witness: after a failed heartbeat the loop has slept and is sending again.
C5_Witness ==
    \E t \in TaskIds :
        /\ tasks[t].lastSend = "fail" /\ tasks[t].pc = "send" /\ tasks[t].site = "post"
        /\ tasks[t].hb = 2

\* C11: once a URL is cached for a channel it stays the cached URL, and no
\* step leaves a loop inside a discovery request (page, token, playlist) of a
\* channel whose URL is cached: send_watch() goes straight to the POST, which is
\* only ever issued with a cached URL.
C11_DiscoveryMemoized ==
    [][/\ \A c \in ChannelObjs : spade[c] # None => spade'[c] = spade[c]
       /\ \A t \in 1..MaxTasks :
              /\ tasks'[t].site \in {"page", "token", "playlist"}
                     => spade'[tasks'[t].chan] = None
              /\ tasks'[t].site = "post" => spade'[tasks'[t].chan] # None]_vars

\* C11 witness: the send_watch() before succeeded, so the URL was cached when
\* this send_watch() began, and it is already at its POST.
C11_Witness ==
    \E t \in TaskIds :
        /\ tasks[t].lastSend = "ok" /\ tasks[t].pc = "send" /\ tasks[t].site = "post"
        /\ spade[tasks[t].chan] = "url_ping"

\* C12: when all three discovery strategies have failed, get_spade_url() raises
\* MinerException and caches nothing, the send_watch() of that iteration returns
\* false and the loop sleeps its interval; when the sleep after a failed
\* send_watch() ends with the loop still due, discovery starts again exactly when
\* no URL is cached.
C12_DiscoveryFailureRetried ==
    [][\A t \in TaskIds :
         /\ (tasks[t].site \in {"token", "playlist"} /\ tasks'[t].site = None
                 /\ ~tasks'[t].cancel)
            => /\ tasks'[t].err = "MinerException"
               /\ spade'[tasks[t].chan] = None
               /\ tasks'[t].lastSend = "fail"
               /\ tasks'[t].pc = "sleep" /\ tasks'[t].timer = WATCH_INTERVAL
         /\ (tasks[t].pc = "sleep" /\ tasks[t].lastSend = "fail" /\ tasks'[t] # tasks[t]
                 /\ ~tasks'[t].cancel /\ is_running /\ watching_channel = tasks[t].chan)
            => /\ spade[tasks[t].chan] = None => tasks'[t].site = "page"
               /\ spade[tasks[t].chan] # None => tasks'[t].site = "post"
      ]_vars

\* C12 witness: after a send_watch() that failed with the MinerException of
\* get_spade_url(), the loop has slept and is fetching the channel page again.
C12_Witness ==
    \E t \in TaskIds :
        /\ tasks[t].err = "MinerException" /\ tasks[t].lastSend = "fail"
        /\ tasks[t].pc = "send" /\ tasks[t].site = "page"
        /\ spade[tasks[t].chan] = None

\* C14: request() hands no response with a status of 500 or more to its caller:
\* after such a response, and after a network or timeout error, it sleeps the
\* delay it has drawn and then issues the request again; the result send_watch()
\* takes from its POST is the result of a response below 500.
C14_ServerErrorRetried ==
    [][\A t \in TaskIds :
          /\ tasks'[t].pc = "yielded" => tasks'[t].resp \in 1..499
          /\ tasks[t].pc = "send" /\ tasks[t].site = "post" /\ tasks'[t].pc = "sleep"
                => tasks'[t].resp \in 1..499
          /\ tasks[t].pc = "send" /\ tasks'[t].resp >= 500
                => /\ tasks'[t].pc = "backoff_held"
                   /\ tasks'[t].site = tasks[t].site
                   /\ tasks'[t].timer = tasks[t].delay
          /\ tasks[t].pc = "send" /\ tasks'[t].pc = "backoff"
                => tasks'[t].site = tasks[t].site /\ tasks'[t].timer = tasks[t].delay
          /\ tasks[t].pc \in {"backoff", "backoff_held"} /\ ~tasks'[t].cancel
                /\ tasks'[t] # tasks[t]
                => tasks'[t].pc = "send" /\ tasks'[t].site = tasks[t].site]_vars

\* C15: a response below 500 is handed to the caller on the attempt that received
\* it, and once the caller has it request() sleeps no backoff delay and issues
\* no further attempt.
C15_ClientStatusHandedOver ==
    [][\A t \in TaskIds :
          /\ tasks[t].pc = "send" /\ ~tasks[t].thrown /\ tasks'[t].resp \in 1..499
                => \/ tasks'[t].pc = "yielded"
                   \/ tasks[t].site = "post" /\ tasks'[t].pc = "sleep"
          /\ tasks[t].pc = "yielded" /\ tasks'[t] # tasks[t]
                => /\ tasks'[t].pc \notin {"backoff", "backoff_held"}
                   /\ ~(tasks'[t].pc = "send" /\ tasks'[t].site = tasks[t].site)]_vars

\* C16: watch(channel) called while the current channel has the same platform
\* id does nothing: no task is cancelled or created and the current channel and
\* task stay; so no task is ever created for the platform channel that is
\* current.
C16_WatchSameChannelNoop ==
    [][/\ watch_noop' /\ ~watch_noop
          => /\ watching_channel # None
             /\ UNCHANGED <<tasks, nTasks, watching_channel, watching_task, is_running>>
       /\ nTasks' # nTasks /\ watching_channel # None
          => channel_id(tasks'[nTasks'].chan) # channel_id(watching_channel)]_vars

\* C16 witness: watch(c1b) was called while the loop of c1 was sending
\* heartbeats; the loop goes on, c1 is still the current channel.
C16_Witness ==
    /\ watch_noop
    /\ watching_channel = "c1" /\ watching_task = 1 /\ nTasks = 1
    /\ tasks[1].chan = "c1" /\ ~tasks[1].cancel
    /\ tasks[1].pc = "send" /\ tasks[1].site = "post"

\* C17: fetch_channels() replaces the channel map wholesale: after it has
\* returned, every entry of the map was made by that call, for a game the call
\* has queried, and the map is empty when the priority list is empty or every
\* query has failed.
C17_ChannelMapReplaced ==
    fc.pc = "idle" /\ fc.result = "returned"
        => /\ \A i \in ChanIds :
                  channels[i].made # 0
                      => /\ channels[i].made = fc.call
                         /\ channels[i].id = i
                         /\ \E j \in fc.queried \ fc.failed :
                                channels[i].game = fc.priority[j]
           /\ fc.queried \subseteq fc.failed => channels = NoChannels

\* C17 witness: a call with an empty priority list has returned; the map, which
\* held two channels when the call began, is empty.
C17_Witness ==
    /\ fc.pc = "idle" /\ fc.result = "returned"
    /\ fc.priority = <<>>
    /\ fc.had = 2
    /\ channels = NoChannels

\* the games of the priority list that a tracked campaign has
KnownGames == {j \in 1..Len(fc.priority) : GameKnown(inventory, fc.priority[j])}

\* C18: a GQLException of one game's directory query ends neither the search nor
\* what it has found: the step leaves the map as it is and goes on to the next
\* game of the list, and a call that has returned has queried every game of the
\* list that a tracked campaign has.
C18_FailedGameKeepsSearch ==
    [][/\ fc.pc = "query" /\ fc'.failed # fc.failed
          => /\ channels' = channels
             /\ fc'.result # "raised"
             /\ fc'.queried \ fc.queried = {j \in KnownGames : j > fc.i /\
                                               \A k \in KnownGames : k > fc.i => j <= k}
       /\ fc'.result = "returned" => fc'.queried = KnownGames']_vars

\* C18 witness: the query of the first game succeeded, the query of the second
\* failed; the call has returned with the channels of the first game.
C18_Witness ==
    /\ fc.pc = "idle" /\ fc.result = "returned"
    /\ fc.queried = {1, 2} /\ fc.failed = {2}
    /\ channels # NoChannels

\* the drops of the campaign that was asked last
AskedDrops == inventory[asked.c].timed_drops

\* C19: finished, whenever it is evaluated, is true exactly when the campaign
\* has at least one drop and every one of its drops is claimed; for a campaign
\* without drops it is false.
C19_FinishedIffAllClaimed ==
    [][asked' # asked
          => /\ Len(AskedDrops') >= 1
                  => (asked'.finished <=>
                          \A i \in 1..Len(AskedDrops') : AskedDrops'[i].is_claimed)
             /\ Len(AskedDrops') = 0 => ~asked'.finished]_vars

\* C19 witness: a campaign of two drops, the second of them claimed by a claim()
\* that succeeded, was found finished.
C19_Witness ==
    /\ asked.c # 0
    /\ asked.finished
    /\ Len(AskedDrops) = 2
    /\ \A i \in 1..2 : AskedDrops[i].is_claimed
    /\ fi.last # NoCall /\ fi.last.outcome = "ok"

\* C20: can_earn(), whenever it is called, returns whether the campaign is
\* active and not finished, and the campaign is active exactly from its start
\* (included) to its end (excluded).
C20_CanEarnActiveUnfinished ==
    [][asked' # asked
          => LET c == inventory'[asked'.c]
                 now == asked'.now
             IN  /\ asked'.active <=> (c.starts_at <= now /\ now < c.ends_at)
                 /\ now = c.starts_at /\ c.starts_at < c.ends_at => asked'.active
                 /\ now = c.ends_at => ~asked'.active
                 /\ asked'.can_earn <=> (asked'.active /\ ~asked'.finished)]_vars

\* C20 witness: a campaign that began before now and ends after it, with one
\* unclaimed drop watched for a part of its minutes, can earn.
C20_Witness ==
    /\ asked.c # 0
    /\ inventory[asked.c].starts_at < asked.now
    /\ asked.now < inventory[asked.c].ends_at
    /\ Len(AskedDrops) = 1
    /\ ~AskedDrops[1].is_claimed
    /\ AskedDrops[1].current_minutes >= 1
    /\ AskedDrops[1].current_minutes < AskedDrops[1].required_minutes
    /\ asked.can_earn

\* C21: can_claim, as claim() reads it, holds exactly when the drop has a claim
\* token and is not claimed: claim() issues its call exactly then, and a drop
\* that has reached its required minutes without a token is not among the
\* claimable drops.
C21_CanClaimIffTokenUnclaimed ==
    [][\A p \in DropPositions(inventory) :
          /\ fi'.last # fi.last /\ fi'.last.pos = p
                => (fi'.last.issued <=>
                        (DropAt(inventory, p).claim_id # None /\ ~DropAt(inventory, p).is_claimed))
          /\ DropAt(inventory, p).claim_id = None => p \notin Claimable(inventory)]_vars

\* C21 witness: claim() was called on an unclaimed drop that has reached its
\* required minutes and has no claim token; no call was issued.
C21_Witness ==
    \E p \in DropPositions(inventory) :
        /\ fi.last = [pos |-> p, issued |-> FALSE, outcome |-> "none"]
        /\ DropAt(inventory, p).claim_id = None
        /\ ~DropAt(inventory, p).is_claimed
        /\ DropAt(inventory, p).current_minutes = DropAt(inventory, p).required_minutes

\* C26: claim() on a drop whose can_claim is false, for want of a token or
\* because it is claimed, issues no call and leaves is_claimed, current_minutes
\* and the claim token as they are.
C26_ClaimNoopWhenNotClaimable ==
    [][\A p \in DropPositions(inventory) :
          /\ fi'.last # fi.last /\ fi'.last.pos = p
          /\ (DropAt(inventory, p).claim_id = None \/ DropAt(inventory, p).is_claimed)
          => /\ ~fi'.last.issued
             /\ fi'.last.outcome = "none"
             /\ DropAt(inventory', p).is_claimed = DropAt(inventory, p).is_claimed
             /\ DropAt(inventory', p).current_minutes = DropAt(inventory, p).current_minutes
             /\ DropAt(inventory', p).claim_id = DropAt(inventory, p).claim_id]_vars

\* C26 witness: claim() was called on a drop without a token that is short of
\* its required minutes; no call was issued and the drop is unclaimed.
C26_Witness ==
    \E p \in DropPositions(inventory) :
        /\ fi.last = [pos |-> p, issued |-> FALSE, outcome |-> "none"]
        /\ DropAt(inventory, p).claim_id = None
        /\ ~DropAt(inventory, p).is_claimed
        /\ DropAt(inventory, p).current_minutes < DropAt(inventory, p).required_minutes

\* the campaigns the dashboard response of the last call reported as ACTIVE
ReportedActive == {fi.reported[j].id : j \in {k \in 1..Len(fi.reported) :
                                                   fi.reported[k].status = "ACTIVE"}}

\* C22: from the moment fetch_inventory() has built its list, and after it has
\* returned, the tracked campaigns are exactly the campaigns of the dashboard
\* response whose status is ACTIVE, each of them once.
C22_OnlyActiveTracked ==
    fi.built
        => /\ {inventory[c].id : c \in 1..Len(inventory)} = ReportedActive
           /\ Len(inventory) = Cardinality(ReportedActive)

\* C22 witness: fetch_inventory() has returned; the dashboard reported an ACTIVE
\* campaign and one of another status, and only the first is tracked.
C22_Witness ==
    /\ fi.built /\ fi.pc = "idle" /\ fi.result = "returned"
    /\ Len(fi.reported) = 2
    /\ fi.reported[1].status = "EXPIRED"
    /\ fi.reported[2].status = "ACTIVE"
    /\ Len(inventory) = 1
    /\ inventory[1].id = fi.reported[2].id

\* C23: every call of with_variables(extra) returns a new operation of the same
\* name and hash whose variables are those of the operation it was called on,
\* overlaid by extra; the operation it was called on is afterwards what it was,
\* and every entry of the registry stays what line 68-78 made it.
C23_WithVariablesOverlaysCopy ==
    [][/\ made' # made
          => /\ made'.result.operationName = made'.base.operationName
             /\ made'.result.sha256Hash = made'.base.sha256Hash
             /\ \A k \in VarKeys :
                    made'.result.variables[k] =
                        IF made'.extra[k] # Missing THEN made'.extra[k]
                        ELSE IF made'.base.has_variables THEN made'.base.variables[k]
                        ELSE Missing
             /\ made'.self = made'.base
             /\ ~made'.same_object
       /\ registry' = GQL_OPERATIONS]_vars

\* C23 witness: with_variables() was called on an operation that has both keys,
\* with a dict that has one of them: the result has the value of the dict for
\* that key and the value of the operation for the other.
C23_Witness ==
    /\ made.key = "made"
    /\ made.base.variables = [channel |-> "v1", slug |-> "v1"]
    /\ made.extra = [channel |-> "v2", slug |-> Missing]
    /\ made.result.variables = [channel |-> "v2", slug |-> "v1"]
    /\ made.self = made.base
    /\ registry = GQL_OPERATIONS

\* C24: with a credential the platform does not accept, whatever its form,
\* setup ends in an exception that reaches main(), and the worker fetches no
\* inventory.
C24_InvalidCredentialHardFailure ==
    ~session.valid
        => /\ session.pc # "interactive"
           /\ session.user_id = None
           /\ fi = FiIdle

\* C25: the step in which a watch loop ends, whatever ends it, clears the
\* worker's current channel if that is the loop's channel and leaves it as it is
\* otherwise.
C25_LoopEndClearsOwnChannel ==
    [][\A t \in TaskIds :
          tasks[t].pc # "done" /\ tasks'[t].pc = "done"
              => watching_channel' = IF watching_channel = tasks[t].chan
                                     THEN None
                                     ELSE watching_channel]_vars

\* C27: the strategies of get_spade_url() run in a fixed order and the first
\* match wins: the token request is issued only by the step that has scanned the
\* channel page without a match, the playlist request only by the step that has
\* read the token, a playlist text with a spade_url match gives that URL, and the
\* /ping URL is derived only from a playlist text without such a match.
C27_StrategiesInOrder ==
    [][\A t \in TaskIds :
          LET c == tasks[t].chan
          IN  /\ tasks[t].site # "token" /\ tasks'[t].site = "token"
                    => /\ tasks[t].site = "page"
                       /\ tasks'[t].body = "nomatch"
                       /\ spade'[c] = None
              /\ tasks[t].site # "playlist" /\ tasks'[t].site = "playlist"
                    => /\ tasks[t].site = "token"
                       /\ spade'[c] = None
              /\ tasks[t].site = "page" /\ tasks'[t].body = "match"
                    => spade'[c] = "url_page" /\ tasks'[t].site = "post"
              /\ tasks[t].site = "playlist" /\ tasks'[t].body \in {"match", "match_chunk"}
                    => spade'[c] = "url_playlist"
              /\ tasks[t].site = "playlist" /\ spade[c] = None /\ spade'[c] = "url_ping"
                    => tasks'[t].body = "chunk"]_vars

\* C27 witness: the page had no match, the token was read, and the playlist text
\* had both a spade_url match and a stream-chunk line: the URL of the match is
\* cached and the heartbeat goes to it.
C27_Witness ==
    \E t \in TaskIds :
        /\ tasks[t].site = "post"
        /\ tasks[t].body = "match_chunk"
        /\ spade[tasks[t].chan] = "url_playlist"

\* C28: fetch_channels() queries the directory only of priority games that some
\* tracked campaign has, and every channel it adds is of such a game; with no
\* tracked campaign it queries nothing and the map is empty.
C28_OnlyKnownGamesQueried ==
    /\ \A j \in fc.queried : GameKnown(inventory, fc.priority[j])
    /\ fc.pc = "query" => GameKnown(inventory, fc.priority[fc.i])
    /\ \A i \in ChanIds :
          channels[i].made # 0 => GameKnown(inventory, channels[i].game)
    /\ inventory = <<>> => fc.queried = {} /\ channels = NoChannels

\* C28 witness: of a priority list of two games only the second has a tracked
\* campaign; the call has returned, having queried the second only and added a
\* channel of it.
C28_Witness ==
    /\ fc.pc = "idle" /\ fc.result = "returned"
    /\ Len(fc.priority) = 2
    /\ ~GameKnown(inventory, fc.priority[1])
    /\ fc.queried = {2}
    /\ \E i \in ChanIds : channels[i].made = fc.call /\ channels[i].game = fc.priority[2]

\* C29: the exit of a loop that is not the worker's current task, such as the
\* loop an earlier stop_watching() has cancelled, leaves the current channel as
\* it is, also when the two loops are for the same channel.
C29_EarlierLoopLeavesCurrent ==
    [][\A t \in TaskIds :
          t # watching_task /\ tasks[t].pc # "done" /\ tasks'[t].pc = "done"
              => watching_channel' = watching_channel]_vars

\* C30: whatever the caller's block does with the response it was handed, a
\* client error or timeout it raises included, request() does not catch it: the
\* engine neither sleeps a backoff delay nor goes on to another attempt.
C30_ResponseHandedOnce ==
    [][\A t \in TaskIds :
          tasks[t].pc = "yielded"
              => /\ ~tasks'[t].thrown
                 /\ tasks'[t].timer # tasks[t].delay \/ tasks'[t].pc \notin {"backoff", "backoff_held"}]_vars

\* a step in which task t issues a heartbeat POST: a first attempt or a retry
HeartbeatSent(t) ==
    /\ tasks'[t].pc = "send" /\ tasks'[t].site = "post"
    /\ tasks[t].pc # "send"

\* C31: every heartbeat POST, first attempt or retry, is issued by the worker's
\* current task for the channel that is current, before and after the step: a
\* loop that stop_watching() or a watch() of another channel has superseded
\* issues none.
C31_HeartbeatOnlyForCurrent ==
    [][\A t \in TaskIds :
          HeartbeatSent(t)
              => /\ watching_channel = tasks[t].chan
                 /\ watching_channel' = tasks[t].chan
                 /\ watching_task = t
                 /\ ~tasks[t].cancel]_vars

\* C31 witness: the loop of c1 had found its heartbeat URL when a watch() of c2
\* superseded it; it is over, cancelled, and the loop of c2 has sent heartbeats.
C31_Witness ==
    /\ nTasks = 2
    /\ tasks[1].chan = "c1" /\ tasks[1].pc = "done" /\ tasks[1].exit = "cancelled"
    /\ spade["c1"] # None
    /\ tasks[2].chan = "c2" /\ tasks[2].hb = MaxHB
    /\ watching_channel = "c2" /\ watching_task = 2

\* C32: no heartbeat POST, first attempt or retry, is issued once stop() has
\* been called, neither by the loop that was running nor by the loop of a
\* watch() called afterwards.
C32_NoHeartbeatAfterStop ==
    [][\A t \in TaskIds : HeartbeatSent(t) => is_running /\ is_running']_vars

\* C32 witness: stop() has cancelled the loop of c1, which had found its
\* heartbeat URL; a watch(c2) called afterwards has started a loop that found c2
\* live and ended at its loop condition without a heartbeat.
C32_Witness ==
    /\ ~is_running
    /\ nTasks = 2
    /\ tasks[1].chan = "c1" /\ tasks[1].pc = "done" /\ tasks[1].exit = "cancelled"
    /\ spade["c1"] # None
    /\ tasks[2].chan = "c2" /\ tasks[2].pc = "done" /\ tasks[2].exit = "cond"
    /\ tasks[2].live = "live" /\ tasks[2].hb = 0

\* C33: once stop() has been called, the worker's current channel becomes empty
\* in the end, whatever the watch task was doing.
C33_StopClearsChannel == ~is_running ~> watching_channel = None

\* C34: when _initialize_session() has returned normally, the worker's user id
\* is the one the platform reported for the credential, a configured username
\* is what it was, and neither is the built-in identity.
C34_IdentityIsReported ==
    session.pc = "interactive"
        => /\ session.user_id = "own"
           /\ session.given => session.username = "configured"
           /\ session.username # "psdpz51"

\* C6: after claim() succeeds on a drop, the drop is claimed and its current
\* minutes equal its required minutes; claim() on a claimed drop issues no claim
\* call and changes nothing.
C6_ClaimSetsAndIsIdempotent ==
    [][\A p \in DropPositions(inventory) :
          /\ fi'.last = [pos |-> p, issued |-> TRUE, outcome |-> "ok"]
             => /\ DropAt(inventory', p).is_claimed
                /\ DropAt(inventory', p).current_minutes = DropAt(inventory', p).required_minutes
          /\ DropAt(inventory, p).is_claimed /\ fi'.last.pos = p
             => /\ ~fi'.last.issued
                /\ inventory' = inventory]_vars

C6_Witness ==
    \E p \in DropPositions(inventory) :
        /\ fi.last = [pos |-> p, issued |-> FALSE, outcome |-> "none"]
        /\ DropAt(inventory, p).claim_id # None
        /\ DropAt(inventory, p).is_claimed
        /\ DropAt(inventory, p).current_minutes = DropAt(inventory, p).required_minutes

\* C7: in every reachable state every tracked drop that is claimed has its
\* current minutes equal to its required minutes, right after construction from
\* the server's data and after every outcome of claim().
C7_ClaimedIsClamped ==
    \A p \in DropPositions(inventory) :
        DropAt(inventory, p).is_claimed
            => DropAt(inventory, p).current_minutes = DropAt(inventory, p).required_minutes

C7_Witness ==
    \E p \in DropPositions(inventory), q \in DropPositions(inventory) :
        /\ p # q
        /\ fi.last = [pos |-> p, issued |-> TRUE, outcome |-> "ok"]
        /\ DropAt(inventory, p).is_claimed
        /\ DropAt(inventory, q).is_claimed
        /\ DropAt(inventory, q).required_minutes = MaxMinutes

\* C8: when the dashboard call or the inventory call of fetch_inventory() ends
\* in an API-level error, fetch_inventory() returns normally and the campaign
\* list is empty afterwards, whatever it held before.
C8_FetchErrorEmptiesList ==
    [][fi.pc = "idle" /\ fi'.pc = "idle" /\ ~fi'.built /\ fi'.cause = "api_error"
          => fi'.result = "returned" /\ inventory' = <<>>]_vars

C8_Witness ==
    /\ fi.cause = "api_error"
    /\ ~fi.built
    /\ fi.held > 0
    /\ fi.result = "returned"
    /\ inventory = <<>>

\* C9: once fetch_inventory() has built the list it attempts a claim on every
\* drop whose can_claim holds; a claim that fails with an API-level error leaves
\* the remaining claimable drops to be attempted, and the list built by the call
\* is kept.
C9_FailedClaimKeepsBatch ==
    /\ fi.built => CampaignIdsOf(inventory) = fi.builtIds
    /\ fi.built /\ fi.result = "returned" => fi.claimable \subseteq fi.attempted
    /\ fi.built /\ fi.pc = "claiming"
          => \A p \in fi.claimable \ fi.attempted :
                 p \in Claimable(inventory) /\ Before(fi.pos, p)
    /\ fi.failed # {} => fi.cause # "api_error"

C9_Witness ==
    /\ fi.built
    /\ fi.result = "returned"
    /\ inventory # <<>>
    /\ \E p \in fi.failed, q \in fi.attempted \ fi.failed : Before(p, q)

\* C10: when the claim call of claim() ends in an API-level error the drop is
\* left as it was, can_claim still holds, and a claim() on a drop whose can_claim
\* holds issues a claim call.
C10_FailedClaimLeavesDrop ==
    [][\A p \in DropPositions(inventory) :
          /\ fi'.last = [pos |-> p, issued |-> TRUE, outcome |-> "api_error"]
             => /\ DropAt(inventory', p) = DropAt(inventory, p)
                /\ can_claim(DropAt(inventory', p))
          /\ can_claim(DropAt(inventory, p)) /\ fi'.last.pos = p
             => fi'.last.issued]_vars

C10_Witness ==
    \E p \in DropPositions(inventory) :
        /\ fi.last = [pos |-> p, issued |-> TRUE, outcome |-> "api_error"]
        /\ can_claim(DropAt(inventory, p))
        /\ ~DropAt(inventory, p).is_claimed
        /\ DropAt(inventory, p).current_minutes < DropAt(inventory, p).required_minutes

====
